---- MODULE Spec2Model ----
(***************************************************************************)
(* Research pipeline of pinprofit-system.                                  *)
(*                                                                         *)
(*   Spec      run_full_research (backend/routers/research.py) together    *)
(*             with broadcast_progress and the research_websocket handler  *)
(*             (backend/main.py) that share research_ws_connections.       *)
(*   SpecPool  scrape_all_platforms (backend/services/scraper.py): the     *)
(*             ThreadPoolExecutor, the as_completed loop, scoring,         *)
(*             filtering and sorting, for the niches that select up to 5   *)
(*             platforms, with adapters that return listings or raise.     *)
(*   SpecWorkers  the same call for every niche, the one that selects all  *)
(*             7 platforms included, with adapters whose pages yield no    *)
(*             listing or that raise.                                      *)
(*   SpecScore the scoring, filtering and sorting of one candidate list.   *)
(*   SpecListing  _score_products on one listing drawn from the boundary   *)
(*             values of price, rating, review count, stock and badges.    *)
(*   SpecRescore  _score_products applied a second time to the dicts it    *)
(*             has already scored.                                         *)
(*   SpecAdapter  one platform adapter: the pages it fetches and the       *)
(*             listing it builds from each result item.                    *)
(*   SpecPage  one platform adapter on result pages of about 15 items,     *)
(*             some of which have no title element or raise when read.     *)
(*   SpecFetch _safe_get: the attempts, the sleeps and the result.         *)
(*   SpecTies  scrape_all_platforms with adapters that return listings of  *)
(*             equal score.                                                *)
(*   SpecQueue queue_write and flush_write_queue                           *)
(*             (backend/services/supabase_client.py).                      *)
(*   SpecSelector  _determine_platforms on niches built from words of      *)
(*             the category lists.                                         *)
(*                                                                         *)
(* Numbers: ratings and scores are kept in tenths (4.5 -> 45, 70 -> 700),  *)
(* prices in whole currency units, commission estimates in hundredths.     *)
(* A Python None is the value None below.  Strings that the code searches  *)
(* (niche, title, keywords) are sequences of atoms; str.lower() is Lower.  *)
(***************************************************************************)
EXTENDS Integers, Sequences, FiniteSets, TLC

\* ------------------------------------------------------------------------
\* Program constants
\* ------------------------------------------------------------------------
MAX_WORKERS == 4
MIN_SCORE == 700

None == -1

\* ------------------------------------------------------------------------
\* Bounds of the model
\* ------------------------------------------------------------------------
\* number of websocket clients that may subscribe to the run
MaxSubs == 2
\* longest list one fetched page contributes to an adapter's result
MaxPageItems == 1
\* most writes that are queued
MaxWrites == 3
\* most listings the adapters of one call return in total
MaxListings == 2
\* longest aggregated candidate list the scoring engine is applied to
MaxProducts == 3
\* longest aggregated candidate list of a run
MaxRunProducts == 2
\* longest niche string the platform selector is applied to, in atoms
MaxNicheLen == 3
\* longest error message (str(e)) a collaborator raises
MaxErrLen == 1

\* ------------------------------------------------------------------------
\* Strings
\* ------------------------------------------------------------------------
\* str.lower() on one atom
LowerAtom(a) ==
  CASE a = "BABY" -> "baby"
    [] a = "Kids" -> "kids"
    [] a = "Yoga" -> "yoga"
    [] a = "Mat" -> "mat"
    [] a = "Kurta" -> "kurta"
    [] a = "Serum" -> "serum"
    [] OTHER -> a

\* a lower() that leaves the string as it is
Lower_Identity(s) == s

\* str.lower() on a string
Lower(s) == [i \in 1..Len(s) |-> LowerAtom(s[i])]

\* Python's `k in s` on strings: k is a contiguous part of s ("" is in every s)
IsSubSeq(k, s) ==
  \E i \in 1..(Len(s) - Len(k) + 1) : SubSeq(s, i, i + Len(k) - 1) = k

\* the first occurrence of each element, in order: list(dict.fromkeys(s))
RECURSIVE DictFromKeys(_)
DictFromKeys(s) ==
  IF s = <<>> THEN <<>>
  ELSE LET r == DictFromKeys(SubSeq(s, 1, Len(s) - 1))
           x == s[Len(s)]
       IN IF \E i \in 1..Len(r) : r[i] = x THEN r ELSE Append(r, x)

SeqSet(s) == {s[i] : i \in 1..Len(s)}

\* ------------------------------------------------------------------------
\* Platform selector
\* ------------------------------------------------------------------------
fashion_kw == {<<"clothing">>, <<"dress">>, <<"saree">>, <<"fashion">>, <<"wear">>,
               <<"kurta">>, <<"shirt">>, <<"jeans">>, <<"lehenga">>, <<"tops">>,
               <<"outfit">>, <<"apparel">>}
beauty_kw == {<<"beauty">>, <<"makeup">>, <<"skincare">>, <<"cosmetic">>,
              <<"lipstick">>, <<"moisturizer">>, <<"serum">>, <<"sunscreen">>,
              <<"hair", " ", "care">>, <<"perfume">>}
baby_kw == {<<"baby">>, <<"infant">>, <<"toddler">>, <<"kids">>, <<"children">>,
            <<"newborn">>}

\* lines 84-100: the list platforms before line 102
PlatformsList(niche) ==
  LET niche_l == Lower(niche)
      p0 == <<"amazon", "flipkart">>
      p1 == IF \E kw \in fashion_kw : IsSubSeq(kw, niche_l)
            THEN p0 \o <<"myntra", "meesho", "ajio">> ELSE p0
      p2 == IF \E kw \in beauty_kw : IsSubSeq(kw, niche_l)
            THEN p1 \o <<"nykaa", "myntra", "meesho">> ELSE p1
      p3 == IF \E kw \in baby_kw : IsSubSeq(kw, niche_l)
            THEN p2 \o <<"firstcry", "meesho">> ELSE p2
  IN IF "meesho" \notin SeqSet(p3) THEN Append(p3, "meesho") ELSE p3

\* a selector that returns the list as it is
_determine_platforms_NoDedup(niche) == PlatformsList(niche)

_determine_platforms(niche) == DictFromKeys(PlatformsList(niche))

\* the keys of the scrapers dict
scrapers == {"amazon", "flipkart", "myntra", "meesho", "ajio", "nykaa", "firstcry"}

\* the niches of the model: they select 3, 5 and all 7 platforms
PoolNiches == { <<"Yoga", " ", "mats">>, <<"Kurta">> }
Niches == PoolNiches \cup { <<"Kids", " ", "wear", " ", "skincare">> }

\* ------------------------------------------------------------------------
\* Listings
\* ------------------------------------------------------------------------
\* the _exclude key is not set
NoExclude == "none"

NoBadges == [bestseller |-> FALSE, amazons_choice |-> FALSE]

\* the dict an adapter appends; score, commission_estimate, trend_bonus and
\* _exclude are keys the scoring engine adds later (None, NoExclude: key not
\* set); mrp and discount_pct are None when the page shows no list price
Listing(platform, title, path, query, price, rating, review_count, badges) ==
  [ title |-> title, platform |-> platform,
    url |-> [host |-> platform, path |-> path, query |-> query],
    price |-> price, rating |-> rating, review_count |-> review_count,
    stock_status |-> "In Stock", badges |-> badges,
    mrp |-> None, discount_pct |-> None,
    commission_estimate |-> None, _exclude |-> NoExclude, score |-> None,
    trend_bonus |-> None ]

\* scheme/host/path of a product URL, query stripped
NormUrl(u) == [u EXCEPT !.query = ""]

\* x or 0
OrZero(x) == IF x = None THEN 0 ELSE x

Min(a, b) == IF a <= b THEN a ELSE b

\* ------------------------------------------------------------------------
\* Scoring engine
\* ------------------------------------------------------------------------
\* a commission table in which firstcry has the rate of amazon
commission_map_Firstcry12(platform) ==
  CASE platform = "amazon" -> 12
    [] platform = "myntra" -> 15
    [] platform = "meesho" -> 18
    [] platform = "flipkart" -> 10
    [] platform = "ajio" -> 14
    [] platform = "nykaa" -> 12
    [] platform = "firstcry" -> 12
    [] OTHER -> 10

commission_map(platform) ==
  CASE platform = "amazon" -> 12
    [] platform = "myntra" -> 15
    [] platform = "meesho" -> 18
    [] platform = "flipkart" -> 10
    [] platform = "ajio" -> 14
    [] platform = "nykaa" -> 12
    [] platform = "firstcry" -> 10
    [] OTHER -> 10

\* stage 2, rating points (tenths)
RatingPoints(rating) ==
  IF rating >= 50 THEN 200
  ELSE IF rating >= 45 THEN 180
  ELSE IF rating >= 40 THEN 140
  ELSE IF rating >= 35 THEN 70
  ELSE 0

\* stage 3, review points (tenths)
ReviewPoints(reviews) ==
  IF reviews >= 5000 THEN 200
  ELSE IF reviews >= 2000 THEN 170
  ELSE IF reviews >= 1000 THEN 140
  ELSE IF reviews >= 500 THEN 100
  ELSE IF reviews >= 100 THEN 50
  ELSE 0

\* stage 4, price points (tenths); `if price:` is false for None and for 0
PricePoints(price) ==
  IF price = 0 THEN 0
  ELSE IF 200 <= price /\ price <= 5000 THEN 200
  ELSE IF 100 <= price /\ price <= 10000 THEN 120
  ELSE 40

\* stage 5, stock points (tenths)
StockPoints(stock) ==
  IF stock = "In Stock" THEN 150
  ELSE IF stock = "Limited Stock" THEN 80
  ELSE 0

\* a stage 6 that awards the keyword points to every listing
TrendPoints_KeywordAlways(p, trends_data, pinterest_data) ==
  (IF trends_data.is_trending THEN 100 ELSE 0)
  + 80
  + (IF p.badges.bestseller THEN 50 ELSE 0)
  + (IF p.badges.amazons_choice THEN 30 ELSE 0)

\* stage 6, trend bonuses (tenths)
TrendPoints(p, trends_data, pinterest_data) ==
  LET trending_keywords == {Lower(kw) : kw \in SeqSet(pinterest_data.trending_keywords)}
      title_lower == Lower(p.title)
  IN (IF trends_data.is_trending THEN 100 ELSE 0)
     + (IF \E kw \in trending_keywords : IsSubSeq(kw, title_lower) THEN 80 ELSE 0)
     + (IF p.badges.bestseller THEN 50 ELSE 0)
     + (IF p.badges.amazons_choice THEN 30 ELSE 0)

\* the assignments without the one of the rating stage
ExcludeAfter_NoRating(p, rating, reviews, stock) ==
  LET e2 == IF reviews < 100 /\ reviews > 0 THEN "too_few_reviews" ELSE p._exclude
      e3 == IF stock \notin {"In Stock", "Limited Stock"} THEN "out_of_stock" ELSE e2
  IN e3

\* the assignments without the one of the review stage
ExcludeAfter_NoReviews(p, rating, reviews, stock) ==
  LET e1 == IF rating < 35 /\ rating > 0 THEN "rating_too_low" ELSE p._exclude
      e3 == IF stock \notin {"In Stock", "Limited Stock"} THEN "out_of_stock" ELSE e1
  IN e3

\* the _exclude key after the three assignments of one loop iteration
ExcludeAfter(p, rating, reviews, stock) ==
  LET e1 == IF rating < 35 /\ rating > 0 THEN "rating_too_low" ELSE p._exclude
      e2 == IF reviews < 100 /\ reviews > 0 THEN "too_few_reviews" ELSE e1
      e3 == IF stock \notin {"In Stock", "Limited Stock"} THEN "out_of_stock" ELSE e2
  IN e3

\* stage 1, commission points (tenths): min(25, commission_pct * 1.5)
CommissionPoints(platform) == Min(250, commission_map(platform) * 15)

\* the local variable score at line 556, after the six stages (tenths)
Points(p, trends_data, pinterest_data) ==
  CommissionPoints(p.platform)
  + RatingPoints(OrZero(p.rating)) + ReviewPoints(OrZero(p.review_count))
  + PricePoints(OrZero(p.price)) + StockPoints(p.stock_status)
  + TrendPoints(p, trends_data, pinterest_data)

\* a normalization that does not cap
Normalize_NoCap(score) == score

\* line 557: min(round(score, 1), 100)
Normalize(score) == Min(score, 1000)

\* an iteration that adds the points to the score the dict already has
ScoreOne_Accumulate(p, trends_data, pinterest_data) ==
  LET price == OrZero(p.price)
      rating == OrZero(p.rating)
      reviews == OrZero(p.review_count)
  IN [p EXCEPT !.commission_estimate = price * commission_map(p.platform),
               !._exclude = ExcludeAfter(p, rating, reviews, p.stock_status),
               !.score = Normalize(OrZero(p.score)
                                   + Points(p, trends_data, pinterest_data)),
               !.trend_bonus = 0]

\* one iteration of the loop over products: the dict p after it
ScoreOne(p, trends_data, pinterest_data) ==
  LET price == OrZero(p.price)
      rating == OrZero(p.rating)
      reviews == OrZero(p.review_count)
  IN [p EXCEPT !.commission_estimate = price * commission_map(p.platform),
               !._exclude = ExcludeAfter(p, rating, reviews, p.stock_status),
               !.score = Normalize(Points(p, trends_data, pinterest_data)),
               !.trend_bonus = 0]

\* the filter without its exclusion test
Survives_IgnoreExclude(p) == OrZero(p.score) >= MIN_SCORE

\* not p.get("_exclude") and (p.get("score") or 0) >= MIN_SCORE
Survives(p) == p._exclude = NoExclude /\ OrZero(p.score) >= MIN_SCORE

\* lines 492-558: the loop over products; the dicts of the list after it
\* (the loop assigns into the dicts of the caller)
ScoreLoop(products, trends_data, pinterest_data) ==
  [i \in 1..Len(products) |-> ScoreOne(products[i], trends_data, pinterest_data)]

_score_products(products, trends_data, pinterest_data) ==
  SelectSeq(ScoreLoop(products, trends_data, pinterest_data), Survives)

\* a place before the listings of equal score
SortedPlace_BeforeEqual(r, x) ==
  Cardinality({i \in 1..Len(r) : r[i].score > x.score})

\* how many listings of the sorted list r stay before x: those of a higher
\* score and, the sort being stable, those of the same score
SortedPlace(r, x) ==
  Cardinality({i \in 1..Len(r) : r[i].score >= x.score})

\* list.sort(key=score, reverse=True): stable, equal scores keep their order
RECURSIVE SortByScore(_)
SortByScore(s) ==
  IF s = <<>> THEN <<>>
  ELSE LET r == SortByScore(SubSeq(s, 1, Len(s) - 1))
           x == s[Len(s)]
           k == SortedPlace(r, x)
       IN SubSeq(r, 1, k) \o <<x>> \o SubSeq(r, k + 1, Len(r))

AboveMin(p) == OrZero(p.score) >= MIN_SCORE

\* lines 66-76 of scrape_all_platforms: score, filter, sort
ScoreFilterSort(all_products, trends_data, pinterest_data) ==
  SortByScore(SelectSeq(_score_products(all_products, trends_data, pinterest_data),
                        AboveMin))

\* ------------------------------------------------------------------------
\* Platform adapters
\* ------------------------------------------------------------------------
\* listings the marketplaces of the model serve (scores without trend bonus:
\* A1 91.0, A2 73.0 but rating 3.0, A3 77.0, F1 70.0, M1 57.5, S1 60.0,
\* J1 56.0, N1 53.0, C1 50.0)
A1 == Listing("amazon", <<"Yoga", " ", "Mat">>, "/dp/A1", "", 1000, 45, 5000, NoBadges)
A2 == Listing("amazon", <<"Mat">>, "/dp/A2", "", 1000, 30, 5000, NoBadges)
A3 == Listing("amazon", <<"Yoga", " ", "Mat">>, "/dp/A3", "", 1000, 40, 500,
              [bestseller |-> TRUE, amazons_choice |-> FALSE])
F1 == Listing("flipkart", <<"Mat">>, "/p/F1", "pid=1", 500, 50, None, NoBadges)
M1 == Listing("myntra", <<"Kurta">>, "/kurta/M1", "", 800, None, None, NoBadges)
S1 == Listing("meesho", <<"Kids", " ", "Kurta">>, "/s/S1", "", 300, None, None, NoBadges)
J1 == Listing("ajio", <<"Kurta">>, "/p/J1", "", 900, None, None, NoBadges)
N1 == Listing("nykaa", <<"Serum">>, "/p/N1", "", 700, None, None, NoBadges)
C1 == Listing("firstcry", <<"BABY", " ", "Mat">>, "/p/C1", "", 400, None, None, NoBadges)

Catalogue(platform) ==
  CASE platform = "amazon" -> {A1, A2, A3}
    [] platform = "flipkart" -> {F1}
    [] platform = "myntra" -> {M1}
    [] platform = "meesho" -> {S1}
    [] platform = "ajio" -> {J1}
    [] platform = "nykaa" -> {N1}
    [] platform = "firstcry" -> {C1}

\* sequences over S of length at most n
SeqsUpTo(S, n) == UNION {[1..k -> S] : k \in 0..n}

\* what one fetched page yields: the listings appended for its items, in page
\* order; <<>> also stands for _safe_get returning None
Pages(platform) == SeqsUpTo(Catalogue(platform), MaxPageItems)

\* the number of URLs the adapter fetches
NumUrls(platform) == IF platform = "amazon" THEN 2 ELSE 1

\* the lists the adapter of a platform can return: the concatenation of what
\* its pages yield
AdapterReturns(platform) ==
  IF NumUrls(platform) = 2
  THEN {pg1 \o pg2 : pg1 \in Pages(platform), pg2 \in Pages(platform)}
  ELSE Pages(platform)

\* ------------------------------------------------------------------------
\* State
\* ------------------------------------------------------------------------
VARIABLES
  \* scrape_all_platforms
  niche,              \* the niche keyword
  trends_data,        \* result of analyze_google_trends
  events_data,        \* result of detect_realtime_events
  pinterest_data,     \* result of scrape_pinterest_trends
  pool_pc,            \* position of the calling thread in scrape_all_platforms
  relevant_platforms, \* list returned by _determine_platforms
  submitted,          \* how many futures executor.submit has created
  fstate,             \* per platform: state of its future
  fresult,            \* per platform: what future.result() returns
  collected,          \* platforms whose future the as_completed loop has handled
  started,            \* per platform: how many times its adapter was started
  all_products,       \* the list all_products
  filtered,           \* the list scrape_all_platforms returns
  scored,             \* the list _score_products returned (line 67)
  \* run_full_research, broadcast_progress, research_websocket
  pc,                 \* position of the orchestrating task
  status,             \* research_sessions.status of the run
  error_log,          \* research_sessions.error_log: length of the text, None if unset
  products_found,     \* research_sessions.products_found
  products_table,     \* rows of the products table inserted by the run
  raw_products,       \* the list scrape_all_platforms returned to the run
  scrape_args,        \* the trend context the run passed to scrape_all_platforms
  saved,              \* the counter saved
  exc,                \* the exception caught by `except Exception as e`
  published,          \* payloads broadcast_progress was called with, in order
  connections,        \* research_ws_connections[session_id]
  ws,                 \* per websocket: state of its connection and handler
  bc,                 \* the running broadcast_progress call: iterator, dead list,
                      \* the connections at its start and those sent to so far
  \* one platform adapter (scrape_amazon ... scrape_firstcry)
  adapter,            \* the platform of the adapter
  adapter_pc,         \* position of the adapter
  url_i,              \* index of the URL the adapter is at
  items,              \* items of the fetched page that the loop has yet to visit
  adapter_products,   \* the adapter's list products
  fetched,            \* what _safe_get returned to the adapter, URL by URL
  \* _safe_get
  attempt,            \* the loop variable attempt
  fetch_pc,           \* position of _safe_get
  slept,              \* the time.sleep calls so far, in order
  responses,          \* the outcomes of the requests.get calls so far, in order
  soup,               \* what _safe_get returned
  \* queue_write, flush_write_queue
  _write_queue,       \* the list _write_queue
  store,              \* the queued writes the store has applied
  queued              \* how many writes queue_write was called for

poolVars == <<niche, trends_data, events_data, pinterest_data, pool_pc,
              relevant_platforms, submitted, fstate, fresult, collected,
              started, all_products, filtered, scored>>

runVars == <<pc, status, error_log, products_found, products_table, raw_products,
             scrape_args, saved, exc, published, connections, ws, bc>>

adapterVars == <<adapter, adapter_pc, url_i, items, adapter_products, fetched>>

fetchVars == <<attempt, fetch_pc, slept, responses, soup>>

queueVars == <<_write_queue, store, queued>>

vars == <<poolVars, runVars, adapterVars, fetchVars, queueVars>>

\* a local variable that is not bound yet
Unset == [unset |-> TRUE]

\* no broadcast_progress call is running
NoBroadcast == [active |-> FALSE, i |-> 0, cur |-> 0, dead |-> <<>>,
                ret |-> "", handler |-> FALSE, at_start |-> {}, sent |-> {}]

NoExc == [raised |-> FALSE, len |-> 0, src |-> ""]

Sockets == 1..MaxSubs

\* the run before start_research is called
RunIdle ==
  /\ pc = "start"
  /\ status = "none"
  /\ error_log = None
  /\ products_found = 0
  /\ products_table = <<>>
  /\ raw_products = <<>>
  /\ scrape_args = Unset
  /\ saved = 0
  /\ exc = NoExc
  /\ published = <<>>
  /\ connections = <<>>
  /\ ws = [w \in Sockets |-> "new"]
  /\ bc = NoBroadcast

\* no adapter is modelled item by item
AdapterIdle ==
  /\ adapter = ""
  /\ adapter_pc = "idle"
  /\ url_i = 0
  /\ items = <<>>
  /\ adapter_products = <<>>
  /\ fetched = <<>>

\* no _safe_get call is modelled attempt by attempt
FetchIdle ==
  /\ attempt = 0
  /\ fetch_pc = "idle"
  /\ slept = <<>>
  /\ responses = <<>>
  /\ soup = Unset

\* nothing was queued
QueueIdle ==
  /\ _write_queue = <<>>
  /\ store = {}
  /\ queued = 0

\* no scrape_all_platforms call is modelled thread by thread
PoolIdle ==
  /\ pool_pc = "idle"
  /\ relevant_platforms = <<>>
  /\ submitted = 0
  /\ fstate = [p \in scrapers |-> "none"]
  /\ fresult = [p \in scrapers |-> <<>>]
  /\ collected = {}
  /\ started = [p \in scrapers |-> 0]
  /\ all_products = <<>>
  /\ filtered = <<>>
  /\ scored = <<>>

\* ------------------------------------------------------------------------
\* Trend signals
\* ------------------------------------------------------------------------
\* analyze_google_trends: is_trending = interest_pct > 40; on failure the
\* neutral signal
GoogleTrends(interest_pct) ==
  [interest_pct |-> interest_pct, is_trending |-> interest_pct > 40]
GoogleTrendsFailed == [interest_pct |-> 0, is_trending |-> FALSE]
TrendsValues == {GoogleTrends(i) : i \in {0, 40, 41}}

\* detect_realtime_events: failures of both sources leave the lists empty
EventsFailed == [combined |-> <<>>]

\* scrape_pinterest_trends: fragments shorter than 50 characters, the empty
\* one included, or mentioning the niche; on failure the empty list
PinterestValues ==
  {[trending_keywords |-> k] : k \in {<<>>, <<<<>>>>, <<<<"Kurta">>>>, <<<<"Yoga">>, <<"Serum">>>>}}
PinterestFailed == [trending_keywords |-> <<>>]

\* ------------------------------------------------------------------------
\* scrape_all_platforms
\* ------------------------------------------------------------------------
\* the futures dict, in submission order
Futures == SelectSeq(relevant_platforms, LAMBDA p : p \in scrapers)

Running == {p \in scrapers : fstate[p] = "running"}
Finished == {p \in scrapers : fstate[p] \in {"returned", "raised"}}
Raised == {p \in scrapers : fstate[p] = "raised"}

RECURSIVE TotalLen(_, _)
TotalLen(f, S) ==
  IF S = {} THEN 0
  ELSE LET x == CHOOSE y \in S : TRUE IN Len(f[x]) + TotalLen(f, S \ {x})

\* the trend context of the calls of SpecPool: the niche is trending and one
\* platform-trend keyword was found
PoolTrends == GoogleTrends(41)
PoolPinterest == [trending_keywords |-> <<<<"Kurta">>>>]

PoolInitFor(niches) ==
  /\ niche \in niches
  /\ trends_data = PoolTrends
  /\ events_data = EventsFailed
  /\ pinterest_data = PoolPinterest
  /\ pool_pc = "call"
  /\ relevant_platforms = <<>>
  /\ submitted = 0
  /\ fstate = [p \in scrapers |-> "none"]
  /\ fresult = [p \in scrapers |-> <<>>]
  /\ collected = {}
  /\ started = [p \in scrapers |-> 0]
  /\ all_products = <<>>
  /\ filtered = <<>>
  /\ scored = <<>>
  /\ RunIdle
  /\ QueueIdle
  /\ AdapterIdle
  /\ FetchIdle

PoolInit == PoolInitFor(PoolNiches)

\* line 37: relevant_platforms = _determine_platforms(niche)
PoolCall ==
  /\ pool_pc = "call"
  /\ relevant_platforms' = _determine_platforms(niche)
  /\ pool_pc' = "submit"
  /\ UNCHANGED runVars
  /\ UNCHANGED <<adapterVars, fetchVars, queueVars>>
  /\ UNCHANGED <<niche, trends_data, events_data, pinterest_data, submitted,
                 fstate, fresult, collected, started, all_products, filtered, scored>>

\* lines 53-56: executor.submit(scrapers[p], niche) for the next platform;
\* after the last one the as_completed loop begins
Submit ==
  /\ pool_pc = "submit"
  /\ IF submitted < Len(Futures)
     THEN /\ fstate' = [fstate EXCEPT ![Futures[submitted + 1]] = "queued"]
          /\ submitted' = submitted + 1
          /\ UNCHANGED pool_pc
     ELSE /\ pool_pc' = "collect"
          /\ UNCHANGED <<fstate, submitted>>
  /\ UNCHANGED runVars
  /\ UNCHANGED <<adapterVars, fetchVars, queueVars>>
  /\ UNCHANGED <<niche, trends_data, events_data, pinterest_data,
                 relevant_platforms, fresult, collected, started,
                 all_products, filtered, scored>>

\* an executor that starts every queued work item at once
CanStart_NoLimit(p) == fstate[p] = "queued"

\* a worker thread of the ThreadPoolExecutor takes the oldest queued work
\* item; the executor has at most MAX_WORKERS threads
CanStart(p) ==
  /\ fstate[p] = "queued"
  /\ \A i \in 1..submitted : fstate[Futures[i]] = "queued" =>
        \A j \in 1..submitted : Futures[j] = p => j <= i
  /\ Cardinality(Running) < MAX_WORKERS

TaskStart(p) ==
  /\ CanStart(p)
  /\ fstate' = [fstate EXCEPT ![p] = "running"]
  /\ started' = [started EXCEPT ![p] = @ + 1]
  /\ UNCHANGED runVars
  /\ UNCHANGED <<adapterVars, fetchVars, queueVars>>
  /\ UNCHANGED <<niche, trends_data, events_data, pinterest_data, pool_pc,
                 relevant_platforms, submitted, fresult, collected,
                 all_products, filtered, scored>>

\* the adapter of p returns the list products
Returns(p, products) ==
  /\ fstate[p] = "running"
  /\ TotalLen(fresult, scrapers) + Len(products) <= MaxListings
  /\ fresult' = [fresult EXCEPT ![p] = products]
  /\ fstate' = [fstate EXCEPT ![p] = "returned"]
  /\ UNCHANGED runVars
  /\ UNCHANGED <<adapterVars, fetchVars, queueVars>>
  /\ UNCHANGED <<niche, trends_data, events_data, pinterest_data, pool_pc,
                 relevant_platforms, submitted, collected, started,
                 all_products, filtered, scored>>

\* the adapter returns its product list
TaskReturn(p) == \E products \in AdapterReturns(p) : Returns(p, products)

\* the adapter returns the empty list: none of its pages yielded a listing
TaskReturnEmpty(p) == Returns(p, <<>>)

\* the adapter raises
TaskRaise(p) ==
  /\ fstate[p] = "running"
  /\ fstate' = [fstate EXCEPT ![p] = "raised"]
  /\ UNCHANGED runVars
  /\ UNCHANGED <<adapterVars, fetchVars, queueVars>>
  /\ UNCHANGED <<niche, trends_data, events_data, pinterest_data, pool_pc,
                 relevant_platforms, submitted, fresult, collected, started,
                 all_products, filtered, scored>>

\* a loop body that assigns the products instead of extending the list
CollectBody_Overwrite(p) ==
  IF fstate[p] = "returned" THEN fresult[p] ELSE all_products

\* lines 57-64: one iteration of `for future in as_completed(futures)`
CollectBody(p) ==
  IF fstate[p] = "returned"
  THEN all_products \o fresult[p]
  ELSE all_products

Collect(p) ==
  /\ pool_pc = "collect"
  /\ p \in Finished \ collected
  /\ all_products' = CollectBody(p)
  /\ collected' = collected \cup {p}
  /\ UNCHANGED runVars
  /\ UNCHANGED <<adapterVars, fetchVars, queueVars>>
  /\ UNCHANGED <<niche, trends_data, events_data, pinterest_data, pool_pc,
                 relevant_platforms, submitted, fstate, fresult, started,
                 filtered, scored>>

\* lines 66-76: as_completed is exhausted, the executor is shut down, the
\* products are scored, filtered and sorted, and the list is returned; the
\* scoring loop writes into the dicts that all_products and the adapters'
\* lists hold
PoolReturn ==
  /\ pool_pc = "collect"
  /\ collected = SeqSet(Futures)
  /\ scored' = _score_products(all_products, trends_data, pinterest_data)
  /\ filtered' = ScoreFilterSort(all_products, trends_data, pinterest_data)
  /\ all_products' = ScoreLoop(all_products, trends_data, pinterest_data)
  /\ fresult' = [p \in scrapers |->
                   ScoreLoop(fresult[p], trends_data, pinterest_data)]
  /\ pool_pc' = "returned"
  /\ UNCHANGED runVars
  /\ UNCHANGED <<adapterVars, fetchVars, queueVars>>
  /\ UNCHANGED <<niche, trends_data, events_data, pinterest_data,
                 relevant_platforms, submitted, fstate, collected, started>>

PoolNext ==
  \/ PoolCall
  \/ Submit
  \/ \E p \in scrapers : TaskStart(p)
  \/ \E p \in scrapers : TaskReturn(p)
  \/ \E p \in scrapers : TaskRaise(p)
  \/ \E p \in scrapers : Collect(p)
  \/ PoolReturn

SpecPool == PoolInit /\ [][PoolNext]_vars

\* the executor and the as_completed loop with adapters that return listings
\* of equal score: A4 and A5 (amazon) and F1 (flipkart) score 70.0 without
\* trend bonus, A1 scores 91.0
A4 == Listing("amazon", <<"Mat">>, "/dp/A4", "", 1000, 35, 500, NoBadges)
A5 == Listing("amazon", <<"Mat">>, "/dp/A5", "", 1000, 35, 500, NoBadges)

TieReturns(platform) ==
  CASE platform = "amazon" -> SeqsUpTo({A1, A4, A5}, MaxListings)
    [] platform = "flipkart" -> {<<>>, <<F1>>}
    [] OTHER -> {<<>>}

TieReturn(p) == \E products \in TieReturns(p) : Returns(p, products)

TiesInit == PoolInitFor({<<"Yoga", " ", "mats">>})

TiesNext ==
  \/ PoolCall
  \/ Submit
  \/ \E p \in scrapers : TaskStart(p)
  \/ \E p \in scrapers : TieReturn(p)
  \/ \E p \in scrapers : Collect(p)
  \/ PoolReturn

SpecTies == TiesInit /\ [][TiesNext]_vars

\* the platform selector on its own, for every niche string of at most
\* MaxNicheLen atoms: words in either case, parts of words, blanks
NicheAtoms == {"BABY", "baby", " ", "clothing", "hair", "care", "Serum",
               "Yoga", "lap", "tops"}

SelectorNiches == UNION {[1..k -> NicheAtoms] : k \in 0..MaxNicheLen}

SelectorInit == PoolInitFor(SelectorNiches)

SelectorNext == PoolCall

SpecSelector == SelectorInit /\ [][SelectorNext]_vars

\* the executor and the as_completed loop for every niche
WorkersInit == PoolInitFor(Niches)

WorkersNext ==
  \/ PoolCall
  \/ Submit
  \/ \E p \in scrapers : TaskStart(p)
  \/ \E p \in scrapers : TaskReturnEmpty(p)
  \/ \E p \in scrapers : TaskRaise(p)
  \/ \E p \in scrapers : Collect(p)
  \/ PoolReturn

SpecWorkers == WorkersInit /\ [][WorkersNext]_vars

\* ------------------------------------------------------------------------
\* The scoring, filtering and sorting of scrape_all_platforms on its own:
\* every candidate list of at most MaxProducts listings of the selected
\* platforms, under every trend context, at the end of the as_completed loop
\* ------------------------------------------------------------------------
SelectedCatalogue(n) ==
  UNION {Catalogue(p) : p \in SeqSet(_determine_platforms(n)) \cap scrapers}

OfPlatform(s, platform) == SelectSeq(s, LAMBDA x : x.platform = platform)

ScoreInit ==
  /\ niche \in Niches
  /\ trends_data \in TrendsValues
  /\ events_data = EventsFailed
  /\ pinterest_data \in PinterestValues
  /\ pool_pc = "collect"
  /\ relevant_platforms = _determine_platforms(niche)
  /\ submitted = Len(relevant_platforms)
  /\ fstate = [p \in scrapers |->
                 IF p \in SeqSet(relevant_platforms) THEN "returned" ELSE "none"]
  /\ all_products \in SeqsUpTo(SelectedCatalogue(niche), MaxProducts)
  /\ fresult = [p \in scrapers |-> OfPlatform(all_products, p)]
  /\ collected = SeqSet(relevant_platforms)
  /\ started = [p \in scrapers |->
                  IF p \in SeqSet(relevant_platforms) THEN 1 ELSE 0]
  /\ filtered = <<>>
  /\ scored = <<>>
  /\ RunIdle
  /\ QueueIdle
  /\ AdapterIdle
  /\ FetchIdle

ScoreNext == PoolReturn

SpecScore == ScoreInit /\ [][ScoreNext]_vars

\* _score_products is applied once more to the list all_products, whose dicts
\* are as the first application left them, with the same trend context
Rescore ==
  /\ pool_pc = "returned"
  /\ scored' = _score_products(all_products, trends_data, pinterest_data)
  /\ all_products' = ScoreLoop(all_products, trends_data, pinterest_data)
  /\ fresult' = [p \in scrapers |->
                   ScoreLoop(fresult[p], trends_data, pinterest_data)]
  /\ pool_pc' = "rescored"
  /\ UNCHANGED runVars
  /\ UNCHANGED <<adapterVars, fetchVars, queueVars>>
  /\ UNCHANGED <<niche, trends_data, events_data, pinterest_data,
                 relevant_platforms, submitted, fstate, collected, started,
                 filtered>>

RescoreNext ==
  \/ PoolReturn
  \/ Rescore

SpecRescore == ScoreInit /\ [][RescoreNext]_vars

\* ------------------------------------------------------------------------
\* The scoring engine applied to a list of one listing, for every combination
\* of the field values on both sides of each threshold of the scoring stages
\* ------------------------------------------------------------------------
ListingPrices == {None, 0, 50, 100, 200, 5000, 5001, 10000, 10001}
ListingRatings == {None, 0, 34, 35, 40, 45, 50}
ListingReviews == {None, 0, 99, 100, 500, 1000, 2000, 5000}
ListingStocks == {"In Stock", "Limited Stock", "Out of Stock"}
ListingBadges == [bestseller : BOOLEAN, amazons_choice : BOOLEAN]

ListingSpace ==
  {[Listing(platform, <<"Yoga", " ", "Mat">>, "/p/1", "", price, rating,
            review_count, badges) EXCEPT !.stock_status = stock] :
     platform \in scrapers, price \in ListingPrices, rating \in ListingRatings,
     review_count \in ListingReviews, stock \in ListingStocks,
     badges \in ListingBadges}

\* the niche that selects every platform
AllNiche == <<"Kids", " ", "wear", " ", "skincare">>

ListingInit ==
  /\ niche = AllNiche
  /\ trends_data \in {GoogleTrends(40), GoogleTrends(41)}
  /\ events_data = EventsFailed
  /\ pinterest_data \in {PinterestFailed, [trending_keywords |-> <<<<"Yoga">>>>]}
  /\ pool_pc = "collect"
  /\ relevant_platforms = _determine_platforms(niche)
  /\ submitted = Len(relevant_platforms)
  /\ all_products \in {<<p>> : p \in ListingSpace}
  /\ fstate = [p \in scrapers |-> "returned"]
  /\ fresult = [p \in scrapers |-> OfPlatform(all_products, p)]
  /\ collected = scrapers
  /\ started = [p \in scrapers |-> 1]
  /\ filtered = <<>>
  /\ scored = <<>>
  /\ RunIdle
  /\ QueueIdle
  /\ AdapterIdle
  /\ FetchIdle

SpecListing == ListingInit /\ [][ScoreNext]_vars

\* ------------------------------------------------------------------------
\* One platform adapter, item by item
\* ------------------------------------------------------------------------
\* what _safe_get returns: BeautifulSoup(r.content, "html.parser"), or None
Document == [document |-> TRUE]
Nothing == [document |-> FALSE]

\* a document together with the items its result selector finds
DocumentOf(page) == [document |-> TRUE, items |-> page]

\* `items[:15]`, `soup.select(...)[:15]`
PageCap == 15

\* what the selectors and _parse_price find in one item of a result page:
\* whether it has a title element, whether reading it raises, its price and
\* its list price
ItemPrices == {None, 0, 1000, 2000}
ItemMrps == {None, 2000, 3000}

Untitled == [has_title |-> FALSE, raises |-> FALSE, price |-> None, mrp |-> None]
Malformed == [has_title |-> TRUE, raises |-> TRUE, price |-> None, mrp |-> None]

AllItems ==
  {Untitled, Malformed}
  \cup {[has_title |-> TRUE, raises |-> FALSE, price |-> price, mrp |-> mrp] :
          price \in ItemPrices, mrp \in ItemMrps}

\* the result pages of SpecAdapter
ShortPages == SeqsUpTo(AllItems, MaxPageItems)

\* result pages with about PageCap items: the item at position k has the
\* price k, except at the positions of bad, where the item has no title
\* element or raises when it is read
LongPage(len, bad, kind) ==
  [k \in 1..len |->
     IF k \in bad
     THEN IF kind = "raises" THEN Malformed ELSE Untitled
     ELSE [has_title |-> TRUE, raises |-> FALSE, price |-> k, mrp |-> None]]

BadPositions == {1, PageCap, PageCap + 1}

LongPages ==
  {LongPage(len, bad, kind) :
     len \in {0} \cup ((PageCap - 1)..(PageCap + MaxPageItems)),
     bad \in SUBSET BadPositions, kind \in {"raises", "no_title"}}

\* a slice that keeps the whole page
Slice_NoCap(page) == page

\* page[:15]
Slice(page) == SubSeq(page, 1, Min(Len(page), PageCap))

\* round(n / d, 0) for non-negative n and positive d, ties to even
RoundHalfEven(n, d) ==
  LET q == n \div d
      r == n % d
  IN IF 2 * r < d THEN q
     ELSE IF 2 * r > d THEN q + 1
     ELSE IF q % 2 = 0 THEN q ELSE q + 1

\* scrape_amazon line 220, in tenths of a percent:
\* round((mrp - price) / mrp * 100, 1) if mrp and price and mrp > price else None
DiscountPct(price, mrp) ==
  IF mrp # None /\ mrp # 0 /\ price # None /\ price # 0 /\ mrp > price
  THEN RoundHalfEven((mrp - price) * 1000, mrp)
  ELSE None

\* the dict the adapter of the platform appends for an item: scrape_amazon
\* sets mrp and discount_pct, scrape_flipkart and scrape_myntra set mrp, the
\* other adapters set neither (rating, review count and badges of the item
\* are not among the fields of the model's items)
ItemListing(platform, item) ==
  LET base == Listing(platform, <<"Mat">>, "/p/1", "", item.price, None, None,
                      NoBadges)
  IN CASE platform = "amazon" ->
            [base EXCEPT !.mrp = item.mrp,
                         !.discount_pct = DiscountPct(item.price, item.mrp)]
       [] platform \in {"flipkart", "myntra"} -> [base EXCEPT !.mrp = item.mrp]
       [] OTHER -> base

AdapterInit ==
  /\ niche = AllNiche
  /\ trends_data = Unset
  /\ events_data = Unset
  /\ pinterest_data = Unset
  /\ PoolIdle
  /\ RunIdle
  /\ QueueIdle
  /\ FetchIdle
  /\ adapter \in scrapers
  /\ adapter_pc = "fetch"
  /\ url_i = 1
  /\ items = <<>>
  /\ adapter_products = <<>>
  /\ fetched = <<>>

\* soup = _safe_get(url): a document, whose items the loop will visit, or
\* None; on None scrape_amazon goes on with its next URL and the other
\* adapters return []
FetchFrom(pages) ==
  /\ adapter_pc = "fetch"
  /\ \/ /\ \E page \in pages :
             /\ items' = Slice(page)
             /\ fetched' = Append(fetched, DocumentOf(page))
        /\ adapter_pc' = "items"
        /\ UNCHANGED url_i
     \/ /\ IF url_i < NumUrls(adapter)
           THEN url_i' = url_i + 1 /\ UNCHANGED adapter_pc
           ELSE adapter_pc' = "returned" /\ UNCHANGED url_i
        /\ fetched' = Append(fetched, Nothing)
        /\ UNCHANGED items
  /\ UNCHANGED <<adapter, adapter_products>>
  /\ UNCHANGED <<poolVars, runVars, fetchVars, queueVars>>

AdapterFetch == FetchFrom(ShortPages)

\* one iteration of `for item in items[:15]`: an item without a title element
\* is skipped (continue), one whose reading raises is skipped (except), for
\* any other the dict is appended
AdapterItem ==
  /\ adapter_pc = "items"
  /\ items # <<>>
  /\ adapter_products' =
       IF Head(items).has_title /\ ~Head(items).raises
       THEN Append(adapter_products, ItemListing(adapter, Head(items)))
       ELSE adapter_products
  /\ items' = Tail(items)
  /\ UNCHANGED <<adapter, adapter_pc, url_i, fetched>>
  /\ UNCHANGED <<poolVars, runVars, fetchVars, queueVars>>

\* the loop over the items ends: the next URL of scrape_amazon, or
\* `return products`
AdapterPageDone ==
  /\ adapter_pc = "items"
  /\ items = <<>>
  /\ IF url_i < NumUrls(adapter)
     THEN url_i' = url_i + 1 /\ adapter_pc' = "fetch"
     ELSE adapter_pc' = "returned" /\ UNCHANGED url_i
  /\ UNCHANGED <<adapter, items, adapter_products, fetched>>
  /\ UNCHANGED <<poolVars, runVars, fetchVars, queueVars>>

AdapterNext ==
  \/ AdapterFetch
  \/ AdapterItem
  \/ AdapterPageDone

SpecAdapter == AdapterInit /\ [][AdapterNext]_vars

\* the adapter on result pages of about PageCap items
PageFetch == FetchFrom(LongPages)

PageNext ==
  \/ PageFetch
  \/ AdapterItem
  \/ AdapterPageDone

SpecPage == AdapterInit /\ [][PageNext]_vars

\* ------------------------------------------------------------------------
\* _safe_get, attempt by attempt.  Durations are in tenths of a unit.
\* ------------------------------------------------------------------------
retries == 3
delays == <<0, 50, 150>>
Cooldown == 600

\* values of random.uniform(3, 6)
Jitters == {30, 45, 60}

\* requests.get returns a response with a status code, or raises
NetworkError == 0
Outcomes == {200, 403, 429, 500, NetworkError}

FetchInit ==
  /\ niche = AllNiche
  /\ trends_data = Unset
  /\ events_data = Unset
  /\ pinterest_data = Unset
  /\ PoolIdle
  /\ RunIdle
  /\ QueueIdle
  /\ AdapterIdle
  /\ attempt = 0
  /\ fetch_pc = "delay"
  /\ slept = <<>>
  /\ responses = <<>>
  /\ soup = Unset

\* the end of one iteration of `for attempt in range(retries)`: the next
\* iteration, or line 143, return None
NextAttempt ==
  IF attempt + 1 < retries
  THEN attempt' = attempt + 1 /\ fetch_pc' = "delay" /\ UNCHANGED soup
  ELSE soup' = Nothing /\ fetch_pc' = "returned" /\ UNCHANGED attempt

\* an exception of requests.get that leaves _safe_get
OnException_Propagate == fetch_pc' = "raised" /\ UNCHANGED <<attempt, soup>>

\* lines 141-142: the exception is caught and logged
OnException == NextAttempt

\* line 132: time.sleep(random.uniform(3, 6) + delays[attempt])
SafeGetDelay ==
  /\ fetch_pc = "delay"
  /\ \E jitter \in Jitters :
       slept' = Append(slept, [kind |-> "delay", attempt |-> attempt,
                               secs |-> jitter + delays[attempt + 1]])
  /\ fetch_pc' = "request"
  /\ UNCHANGED <<attempt, responses, soup>>
  /\ UNCHANGED <<poolVars, runVars, adapterVars, queueVars>>

\* lines 133-142: requests.get and the tests on the status code
SafeGetRequest ==
  /\ fetch_pc = "request"
  /\ \E outcome \in Outcomes :
       /\ responses' = Append(responses, outcome)
       /\ CASE outcome = 200 ->
                 soup' = Document /\ fetch_pc' = "returned" /\ UNCHANGED attempt
            [] outcome \in {403, 429} ->
                 fetch_pc' = "cooldown" /\ UNCHANGED <<attempt, soup>>
            [] outcome = NetworkError -> OnException
            [] OTHER -> NextAttempt
  /\ UNCHANGED slept
  /\ UNCHANGED <<poolVars, runVars, adapterVars, queueVars>>

\* line 138: time.sleep(60), and the end of the iteration
SafeGetCooldown ==
  /\ fetch_pc = "cooldown"
  /\ slept' = Append(slept, [kind |-> "cooldown", attempt |-> attempt,
                             secs |-> Cooldown])
  /\ NextAttempt
  /\ UNCHANGED responses
  /\ UNCHANGED <<poolVars, runVars, adapterVars, queueVars>>

FetchNext ==
  \/ SafeGetDelay
  \/ SafeGetRequest
  \/ SafeGetCooldown

SpecFetch == FetchInit /\ [][FetchNext]_vars

\* ------------------------------------------------------------------------
\* queue_write and flush_write_queue (backend/services/supabase_client.py)
\* ------------------------------------------------------------------------
Operations == {"insert", "upsert", "update"}

\* the value of data["_match_val"] of a queued update: the id of the row
MatchVal == 7

\* the dict queue_write appends for the n-th write; match_val is
\* data.get("_match_val"), None when the key is not in data
QueueItem(n, operation) ==
  [id |-> n, operation |-> operation,
   match_val |-> IF operation = "update" THEN MatchVal ELSE None]

\* lines 60-68
QueueWrite(operation) ==
  /\ queued < MaxWrites
  /\ queued' = queued + 1
  /\ _write_queue' = Append(_write_queue, QueueItem(queued + 1, operation))
  /\ UNCHANGED store
  /\ UNCHANGED <<poolVars, runVars, adapterVars, fetchVars>>

\* lines 87-88: data.pop("_match_key", "id"), data.pop("_match_val", None)
\* take the match fields out of the dict that the queue holds
AfterPop(item) ==
  IF item.operation = "update" THEN [item EXCEPT !.match_val = None] ELSE item

\* whether the loop body calls execute() for the item: always for an insert
\* or upsert, for an update only `if match_val:`
Executes(item) ==
  item.operation = "update" => (item.match_val # None /\ item.match_val # 0)

\* lines 78-93: the loop over the queue, given for each position whether its
\* execute() succeeds: the ids applied and the list failed
Applied(q, ok) == {q[k].id : k \in {j \in 1..Len(q) : Executes(q[j]) /\ ok[j]}}

FailedItems(q, ok) ==
  LET after == [k \in 1..Len(q) |-> AfterPop(q[k])]
      idx == {k \in 1..Len(q) : Executes(q[k]) /\ ~ok[k]}
      RECURSIVE Pick(_)
      Pick(k) == IF k > Len(q) THEN <<>>
                 ELSE IF k \in idx THEN <<after[k]>> \o Pick(k + 1)
                 ELSE Pick(k + 1)
  IN Pick(1)

\* lines 71-99: one call of flush_write_queue on a queue that is not empty
\* (the loop has no await: the call runs without interleaving)
FlushWriteQueue ==
  /\ _write_queue # <<>>
  /\ \E ok \in [1..Len(_write_queue) -> BOOLEAN] :
       /\ store' = store \cup Applied(_write_queue, ok)
       /\ _write_queue' = FailedItems(_write_queue, ok)
  /\ UNCHANGED queued
  /\ UNCHANGED <<poolVars, runVars, adapterVars, fetchVars>>

QueueInit ==
  /\ niche = AllNiche
  /\ trends_data = Unset
  /\ events_data = Unset
  /\ pinterest_data = Unset
  /\ PoolIdle
  /\ RunIdle
  /\ AdapterIdle
  /\ FetchIdle
  /\ QueueIdle

QueueNext ==
  \/ \E operation \in Operations : QueueWrite(operation)
  \/ FlushWriteQueue

SpecQueue == QueueInit /\ [][QueueNext]_vars

\* ------------------------------------------------------------------------
\* broadcast_progress and research_websocket
\* ------------------------------------------------------------------------
\* list.remove(x): the list without the first occurrence of x
ListRemove(lst, x) ==
  LET k == CHOOSE i \in 1..Len(lst) : lst[i] = x /\ \A j \in 1..(i - 1) : lst[j] # x
  IN SubSeq(lst, 1, k - 1) \o SubSeq(lst, k + 1, Len(lst))

\* `for ws in dead: connections.remove(ws)`: the list after the loop and
\* whether a remove raised ValueError (the loop stops there)
RECURSIVE RemoveDead(_, _)
RemoveDead(lst, dead) ==
  IF dead = <<>> THEN [list |-> lst, raised |-> FALSE]
  ELSE IF Head(dead) \notin SeqSet(lst) THEN [list |-> lst, raised |-> TRUE]
  ELSE RemoveDead(ListRemove(lst, Head(dead)), Tail(dead))

\* the orchestrating task is suspended in an await that yields to the event
\* loop (asyncio.to_thread, ws.send_text), is not started yet, or has ended
AtAwait ==
  pc \in {"queued", "fetch_trends", "fetch_events", "fetch_pinterest", "scrape",
          "sending", "done", "aborted", "rejected"}

\* what the orchestrating task does when a call inside the try block raises
\* (line 186), and when one outside of it does
RaiseInTry(len, src) ==
  /\ pc' = "handler"
  /\ exc' = [raised |-> TRUE, len |-> len, src |-> src]

\* lines 20-24: broadcast_progress is called with a payload; the for loop
\* takes the first connection and awaits its send, or, when the list is
\* empty, the call returns at once
BeginBroadcast(payload, ret, handler) ==
  /\ published' = Append(published, payload)
  /\ IF connections = <<>>
     THEN /\ pc' = ret
          /\ bc' = NoBroadcast
     ELSE /\ pc' = "sending"
          /\ bc' = [active |-> TRUE, i |-> 1, cur |-> connections[1],
                    dead |-> <<>>, ret |-> ret, handler |-> handler,
                    at_start |-> SeqSet(connections), sent |-> {}]

\* the outcomes of `await ws.send_text(...)`: it raises only when the peer is
\* gone
CanSendOk(w) == ws[w] \in {"open", "closing"}
CanSendFail(w) == ws[w] \in {"closing", "closed"}

\* lines 22-28: the awaited send returns or raises; the loop goes on with the
\* next connection of the list as it is now, or ends and removes the dead ones
SendDone(ok) ==
  /\ pc = "sending"
  /\ IF ok THEN CanSendOk(bc.cur) ELSE CanSendFail(bc.cur)
  /\ LET dead == IF ok THEN bc.dead ELSE Append(bc.dead, bc.cur)
         next == bc.i + 1
     IN IF next <= Len(connections)
        THEN /\ bc' = [bc EXCEPT !.i = next, !.cur = connections[next],
                                  !.dead = dead, !.sent = bc.sent \cup {bc.cur}]
             /\ UNCHANGED <<pc, connections, exc>>
        ELSE LET r == RemoveDead(connections, dead)
             IN /\ connections' = r.list
                /\ bc' = NoBroadcast
                /\ IF ~r.raised THEN pc' = bc.ret /\ UNCHANGED exc
                   ELSE IF bc.handler
                        THEN pc' = "aborted" /\ UNCHANGED exc
                        ELSE RaiseInTry(1, "broadcast")
  /\ UNCHANGED poolVars
  /\ UNCHANGED <<adapterVars, fetchVars, queueVars>>
  /\ UNCHANGED <<status, error_log, products_found, products_table, raw_products,
                 scrape_args, saved, published, ws>>

\* main.py lines 81-84: a client connects; the handler accepts and appends
\* (the websockets are numbered in the order in which they connect)
Connect(w) ==
  /\ AtAwait
  /\ ws[w] = "new"
  /\ \A v \in Sockets : v < w => ws[v] # "new"
  /\ ws' = [ws EXCEPT ![w] = "open"]
  /\ connections' = Append(connections, w)
  /\ UNCHANGED poolVars
  /\ UNCHANGED <<adapterVars, fetchVars, queueVars>>
  /\ UNCHANGED <<pc, status, error_log, products_found, products_table,
                 raw_products, scrape_args, saved, exc, published, bc>>

\* the client goes away
ClientDisconnect(w) ==
  /\ AtAwait
  /\ ws[w] = "open"
  /\ ws' = [ws EXCEPT ![w] = "closing"]
  /\ UNCHANGED poolVars
  /\ UNCHANGED <<adapterVars, fetchVars, queueVars>>
  /\ UNCHANGED <<pc, status, error_log, products_found, products_table,
                 raw_products, scrape_args, saved, exc, published, connections, bc>>

\* main.py lines 88-89: receive_text raises WebSocketDisconnect and the
\* handler removes the websocket (a ValueError of remove ends the handler)
HandlerDisconnect(w) ==
  /\ AtAwait
  /\ ws[w] = "closing"
  /\ ws' = [ws EXCEPT ![w] = "closed"]
  /\ connections' = IF w \in SeqSet(connections) THEN ListRemove(connections, w)
                    ELSE connections
  /\ UNCHANGED poolVars
  /\ UNCHANGED <<adapterVars, fetchVars, queueVars>>
  /\ UNCHANGED <<pc, status, error_log, products_found, products_table,
                 raw_products, scrape_args, saved, exc, published, bc>>

\* ------------------------------------------------------------------------
\* start_research and run_full_research
\* ------------------------------------------------------------------------
\* what the three trend sources deliver during the runs of Spec when they
\* do not fail
RunInterest == 41
RunEvents == [combined |-> <<"festival">>]
RunPinterest == [trending_keywords |-> <<<<"Kurta">>>>]
RunNiches == {<<"Yoga", " ", "mats">>}

\* lengths of the messages str(e) of the errors collaborators raise
ErrLens == 1..MaxErrLen

\* the payload of update(step, pct, extra)
StagePayload(pct) ==
  [progress |-> pct, status |-> IF pct = 100 THEN "completed" ELSE "none"]

\* lines 195-199
FailurePayload == [progress |-> 0, status |-> "failed"]

\* the update calls with the percentages of steps 5 and 6 exchanged
Updates_Swapped ==
  << [at |-> "queued", pct |-> 5,   to |-> "fetch_trends"],
     [at |-> "s15",    pct |-> 15,  to |-> "fetch_events"],
     [at |-> "s25",    pct |-> 25,  to |-> "fetch_pinterest"],
     [at |-> "s35",    pct |-> 35,  to |-> "scrape"],
     [at |-> "s60",    pct |-> 75,  to |-> "s75"],
     [at |-> "s75",    pct |-> 60,  to |-> "s85"],
     [at |-> "s85",    pct |-> 85,  to |-> "s92"],
     [at |-> "s92",    pct |-> 92,  to |-> "save"],
     [at |-> "s100",   pct |-> 100, to |-> "log_evo"] >>

\* the update calls with step 4 entered right after the update of step 3,
\* before the platform-trend fetch
Updates_ScrapeEarly ==
  << [at |-> "queued", pct |-> 5,   to |-> "fetch_trends"],
     [at |-> "s15",    pct |-> 15,  to |-> "fetch_events"],
     [at |-> "s25",    pct |-> 25,  to |-> "s35"],
     [at |-> "s35",    pct |-> 35,  to |-> "scrape"],
     [at |-> "s60",    pct |-> 60,  to |-> "s75"],
     [at |-> "s75",    pct |-> 75,  to |-> "s85"],
     [at |-> "s85",    pct |-> 85,  to |-> "s92"],
     [at |-> "s92",    pct |-> 92,  to |-> "save"],
     [at |-> "s100",   pct |-> 100, to |-> "log_evo"] >>

\* the `await update(...)` calls of run_full_research: where the task stands
\* before the call, the percentage, and where it stands after it
Updates ==
  << [at |-> "queued", pct |-> 5,   to |-> "fetch_trends"],
     [at |-> "s15",    pct |-> 15,  to |-> "fetch_events"],
     [at |-> "s25",    pct |-> 25,  to |-> "fetch_pinterest"],
     [at |-> "s35",    pct |-> 35,  to |-> "scrape"],
     [at |-> "s60",    pct |-> 60,  to |-> "s75"],
     [at |-> "s75",    pct |-> 75,  to |-> "s85"],
     [at |-> "s85",    pct |-> 85,  to |-> "s92"],
     [at |-> "s92",    pct |-> 92,  to |-> "save"],
     [at |-> "s100",   pct |-> 100, to |-> "log_evo"] >>

\* lines 36-54: the session row is inserted with status running, the start is
\* logged and the background task is queued; an insert that raises ends the
\* request before the task is queued
StartResearch ==
  /\ pc = "start"
  /\ \/ /\ status' = "running"
        /\ pc' = "queued"
     \/ /\ status' = "running"
        /\ pc' = "rejected"
     \/ /\ status' = status
        /\ pc' = "rejected"
  /\ UNCHANGED poolVars
  /\ UNCHANGED <<adapterVars, fetchVars, queueVars>>
  /\ UNCHANGED <<error_log, products_found, products_table, raw_products,
                 scrape_args, saved, exc, published, connections, ws, bc>>

\* lines 111, 115, 119, 123, 129, 132, 135, 138, 183: await update(step, pct)
Update(k) ==
  /\ pc = Updates[k].at
  /\ BeginBroadcast(StagePayload(Updates[k].pct), Updates[k].to, FALSE)
  /\ UNCHANGED poolVars
  /\ UNCHANGED <<adapterVars, fetchVars, queueVars>>
  /\ UNCHANGED <<status, error_log, products_found, products_table, raw_products,
                 scrape_args, saved, exc, connections, ws>>

\* line 112: analyze_google_trends in a thread; the call returns a signal
\* (the neutral one when the source failed) or raises
FetchTrends ==
  /\ UNCHANGED <<adapterVars, fetchVars, queueVars>>
  /\ pc = "fetch_trends"
  /\ \/ /\ trends_data' \in {GoogleTrends(RunInterest), GoogleTrendsFailed}
        /\ pc' = "s15"
        /\ UNCHANGED exc
     \/ /\ \E len \in ErrLens : RaiseInTry(len, "stage")
        /\ UNCHANGED trends_data
  /\ UNCHANGED <<niche, events_data, pinterest_data, pool_pc, relevant_platforms,
                 submitted, fstate, fresult, collected, started, all_products,
                 filtered, scored>>
  /\ UNCHANGED <<status, error_log, products_found, products_table, raw_products,
                 scrape_args, saved, published, connections, ws, bc>>

\* line 116: detect_realtime_events in a thread
FetchEvents ==
  /\ UNCHANGED <<adapterVars, fetchVars, queueVars>>
  /\ pc = "fetch_events"
  /\ \/ /\ events_data' \in {RunEvents, EventsFailed}
        /\ pc' = "s25"
        /\ UNCHANGED exc
     \/ /\ \E len \in ErrLens : RaiseInTry(len, "stage")
        /\ UNCHANGED events_data
  /\ UNCHANGED <<niche, trends_data, pinterest_data, pool_pc, relevant_platforms,
                 submitted, fstate, fresult, collected, started, all_products,
                 filtered, scored>>
  /\ UNCHANGED <<status, error_log, products_found, products_table, raw_products,
                 scrape_args, saved, published, connections, ws, bc>>

\* line 120: scrape_pinterest_trends in a thread
FetchPinterest ==
  /\ UNCHANGED <<adapterVars, fetchVars, queueVars>>
  /\ pc = "fetch_pinterest"
  /\ \/ /\ pinterest_data' \in {RunPinterest, PinterestFailed}
        /\ pc' = "s35"
        /\ UNCHANGED exc
     \/ /\ \E len \in ErrLens : RaiseInTry(len, "stage")
        /\ UNCHANGED pinterest_data
  /\ UNCHANGED <<niche, trends_data, events_data, pool_pc, relevant_platforms,
                 submitted, fstate, fresult, collected, started, all_products,
                 filtered, scored>>
  /\ UNCHANGED <<status, error_log, products_found, products_table, raw_products,
                 scrape_args, saved, published, connections, ws, bc>>

\* the arguments of the scrape_all_platforms call of lines 124-126
ScrapeArgs ==
  [trends_data |-> trends_data, events_data |-> events_data,
   pinterest_data |-> pinterest_data]

\* the listings the marketplaces serve during the runs of Spec, and the
\* candidate lists the adapters of the selected platforms can aggregate to
RunListings == {A1, A2, S1}
RunCandidates == SeqsUpTo(SelectedCatalogue(niche) \cap RunListings, MaxRunProducts)

\* lines 124-126: scrape_all_platforms in a thread, given the three trend
\* results; it returns the scored, filtered and sorted list or raises
Scrape ==
  /\ pc = "scrape"
  /\ \/ /\ \E cands \in RunCandidates :
             raw_products' = ScoreFilterSort(cands, ScrapeArgs.trends_data,
                                             ScrapeArgs.pinterest_data)
        /\ scrape_args' = ScrapeArgs
        /\ pc' = "s60"
        /\ UNCHANGED exc
     \/ /\ \E len \in ErrLens : RaiseInTry(len, "stage")
        /\ UNCHANGED <<raw_products, scrape_args>>
  /\ UNCHANGED poolVars
  /\ UNCHANGED <<adapterVars, fetchVars, queueVars>>
  /\ UNCHANGED <<status, error_log, products_found, products_table, saved,
                 published, connections, ws, bc>>

\* lines 140-165: one iteration of the loop over raw_products: the insert
\* into products succeeds and saved is incremented, or it raises
SaveListing ==
  /\ pc = "save"
  /\ saved < Len(raw_products)
  /\ \/ /\ products_table' = Append(products_table, raw_products[saved + 1])
        /\ saved' = saved + 1
        /\ UNCHANGED <<pc, exc>>
     \/ /\ \E len \in ErrLens : RaiseInTry(len, "stage")
        /\ UNCHANGED <<products_table, saved>>
  /\ UNCHANGED poolVars
  /\ UNCHANGED <<adapterVars, fetchVars, queueVars>>
  /\ UNCHANGED <<status, error_log, products_found, raw_products, scrape_args,
                 published, connections, ws, bc>>

\* lines 168-175: the session row is updated to completed with the count, or
\* the update raises
CompleteRun ==
  /\ pc = "save"
  /\ saved = Len(raw_products)
  /\ \/ /\ status' = "completed"
        /\ products_found' = saved
        /\ pc' = "log"
        /\ UNCHANGED exc
     \/ /\ \E len \in ErrLens : RaiseInTry(len, "stage")
        /\ UNCHANGED <<status, products_found>>
  /\ UNCHANGED poolVars
  /\ UNCHANGED <<adapterVars, fetchVars, queueVars>>
  /\ UNCHANGED <<error_log, products_table, raw_products, scrape_args, saved,
                 published, connections, ws, bc>>

\* lines 178-181: the completion is logged to evolution_log, or the insert
\* raises
LogCompletion ==
  /\ pc = "log"
  /\ \/ /\ pc' = "s100"
        /\ UNCHANGED exc
     \/ \E len \in ErrLens : RaiseInTry(len, "stage")
  /\ UNCHANGED poolVars
  /\ UNCHANGED <<adapterVars, fetchVars, queueVars>>
  /\ UNCHANGED <<status, error_log, products_found, products_table, raw_products,
                 scrape_args, saved, published, connections, ws, bc>>

\* line 184: log_research_complete catches its own errors
LogEvolution ==
  /\ pc = "log_evo"
  /\ pc' = "done"
  /\ UNCHANGED poolVars
  /\ UNCHANGED <<adapterVars, fetchVars, queueVars>>
  /\ UNCHANGED <<status, error_log, products_found, products_table, raw_products,
                 scrape_args, saved, exc, published, connections, ws, bc>>

\* the text written to error_log: str(e), whole
ErrorLogText(len) == len

\* lines 186-199: the except clause: the session row is updated to failed
\* with the error text (an error of that update is swallowed), then the
\* failure payload is broadcast
Handler ==
  /\ pc = "handler"
  /\ \/ /\ status' = "failed"
        /\ error_log' = ErrorLogText(exc.len)
     \/ UNCHANGED <<status, error_log>>
  /\ BeginBroadcast(FailurePayload, "done", TRUE)
  /\ UNCHANGED poolVars
  /\ UNCHANGED <<adapterVars, fetchVars, queueVars>>
  /\ UNCHANGED <<products_found, products_table, raw_products, scrape_args,
                 saved, exc, connections, ws>>

Init ==
  /\ niche \in RunNiches
  /\ trends_data = Unset
  /\ events_data = Unset
  /\ pinterest_data = Unset
  /\ PoolIdle
  /\ RunIdle
  /\ QueueIdle
  /\ AdapterIdle
  /\ FetchIdle

Next ==
  \/ StartResearch
  \/ \E k \in 1..Len(Updates) : Update(k)
  \/ FetchTrends
  \/ FetchEvents
  \/ FetchPinterest
  \/ Scrape
  \/ SaveListing
  \/ CompleteRun
  \/ LogCompletion
  \/ LogEvolution
  \/ Handler
  \/ \E ok \in BOOLEAN : SendDone(ok)
  \/ \E w \in Sockets : Connect(w)
  \/ \E w \in Sockets : ClientDisconnect(w)
  \/ \E w \in Sockets : HandlerDisconnect(w)

Spec == Init /\ [][Next]_vars

\* ------------------------------------------------------------------------
\* Properties of run_full_research
\* ------------------------------------------------------------------------
Terminal == {"completed", "failed"}

\* run_full_research has ended, by returning or by an escaping exception
RunEnded == pc \in {"done", "aborted"}

\* C1: the run status is terminal once reached.  Once the persisted status is
\* completed or failed, no step writes a different value.
C1_StatusTerminal == [][(status \in Terminal) => (status' = status)]_vars

FailureEvents == {i \in 1..Len(published) : published[i].status = "failed"}

\* C2: a stage that raises fails the run.  When run_full_research has ended
\* after a stage raised, the persisted status is failed, an error message is
\* recorded with it, and exactly one failure event was published, as the last
\* event.  (The bounded length of the message is not stated here: error_log is
\* ErrorLogText of the whole message.)
C2_StageErrorFailsRun ==
  (RunEnded /\ exc.raised /\ exc.src = "stage") =>
    /\ status = "failed"
    /\ error_log # None
    /\ FailureEvents = {Len(published)}

\* C3: every started run leaves running.  When run_full_research has ended,
\* the persisted status is completed or failed.
C3_RunLeavesRunning == RunEnded => status \in Terminal

Progress(evs) == [i \in 1..Len(evs) |-> evs[i].progress]

Checkpoints == <<5, 15, 25, 35, 60, 75, 85, 92, 100>>

IsPrefix(a, b) == Len(a) <= Len(b) /\ a = SubSeq(b, 1, Len(a))

\* C4 as stated: over all events of the run no event carries a percentage
\* lower than an earlier event, and a run that ends completed published
\* exactly the checkpoints.
C4_AllEventsMonotone ==
  /\ \A i, j \in 1..Len(published) :
       i < j => published[i].progress <= published[j].progress
  /\ (pc = "done" /\ status = "completed") => Progress(published) = Checkpoints

\* C4 amended: the events published by update come in stage order, their
\* percentages are a prefix of the checkpoints (strictly increasing); a run
\* in which nothing raised published exactly the checkpoints; the only other
\* event is the failure event, with percentage 0, published at most once and
\* last.
C4_StageEventsOrdered ==
  LET stage == SelectSeq(published, LAMBDA e : e.status # "failed")
  IN /\ IsPrefix(Progress(stage), Checkpoints)
     /\ \A i, j \in 1..Len(stage) : i < j => stage[i].progress < stage[j].progress
     /\ (pc = "done" /\ ~exc.raised) => Progress(published) = Checkpoints
     /\ \A i \in FailureEvents : i = Len(published) /\ published[i].progress = 0

\* a run failed after step 6 and its failure event followed the stage events
C4_Witness ==
  /\ pc = "done"
  /\ Len(published) >= 7
  /\ published[Len(published)].status = "failed"

\* C5: progress delivery never affects the pipeline.  No exception of the
\* run comes out of broadcast_progress, and no broadcast ends the task.
C5_DeliveryHarmless ==
  /\ ~(exc.raised /\ exc.src = "broadcast")
  /\ pc # "aborted"

AllFetched ==
  /\ trends_data # Unset
  /\ events_data # Unset
  /\ pinterest_data # Unset

\* C8: the scraper stage does not begin before each of the three trend
\* fetches has returned, and the trend context passed to scrape_all_platforms
\* is the one those fetches produced.
C8_TrendsBeforeScrape ==
  /\ pc = "scrape" => AllFetched
  /\ scrape_args # Unset =>
       /\ AllFetched
       /\ scrape_args = [trends_data |-> trends_data, events_data |-> events_data,
                         pinterest_data |-> pinterest_data]

\* the scraper ran with a search-interest signal that was fetched and a
\* platform-trend result that stands for a failed source
C8_Witness ==
  /\ scrape_args # Unset
  /\ scrape_args.trends_data = GoogleTrends(RunInterest)
  /\ scrape_args.pinterest_data = PinterestFailed
  /\ raw_products # <<>>

\* the rating is present and strictly between 0 and 3.5
LowRating(p) == p.rating # None /\ p.rating > 0 /\ p.rating < 35

\* the review count is a positive number below 100
FewReviews(p) == p.review_count # None /\ p.review_count > 0 /\ p.review_count < 100

StockKnown(p) == p.stock_status \in {"In Stock", "Limited Stock"}

\* the score of a listing that gets no keyword points (tenths)
PlainScore(p, trends) ==
  Min(1000,
      CommissionPoints(p.platform) + RatingPoints(OrZero(p.rating))
      + ReviewPoints(OrZero(p.review_count)) + PricePoints(OrZero(p.price))
      + StockPoints(p.stock_status)
      + (IF trends.is_trending THEN 100 ELSE 0)
      + (IF p.badges.bestseller THEN 50 ELSE 0)
      + (IF p.badges.amazons_choice THEN 30 ELSE 0))

\* the listing as the adapter appended it
Unscored(p) ==
  [p EXCEPT !.score = None, !.commission_estimate = None,
            !._exclude = NoExclude, !.trend_bonus = None]

\* the listing is not excluded and reaches the threshold without keyword points
ReachesPlain(p, trends) ==
  /\ ~LowRating(p) /\ ~FewReviews(p) /\ StockKnown(p)
  /\ PlainScore(p, trends) >= MIN_SCORE

\* C20: when the real-time-events source and the platform-trend source both
\* failed and nothing raised, the run is never failed; when it has ended its
\* status is completed, no listing got keyword points, every listing of the
\* final list was saved, and the recorded product count is the number of
\* candidates that reach the threshold without keyword points.
C20_SourcesFailRunCompletes ==
  (events_data = EventsFailed /\ pinterest_data = PinterestFailed /\ ~exc.raised) =>
    /\ status # "failed"
    /\ \A j \in 1..Len(raw_products) :
         raw_products[j].score = PlainScore(raw_products[j], trends_data)
    /\ pc = "done" =>
         /\ status = "completed"
         /\ products_table = raw_products
         /\ products_found = Len(raw_products)
         /\ \E cands \in RunCandidates :
              LET reach == {i \in 1..Len(cands) : ReachesPlain(cands[i], trends_data)}
              IN /\ products_found = Cardinality(reach)
                 /\ {Unscored(raw_products[j]) : j \in 1..Len(raw_products)}
                      = {cands[i] : i \in reach}

\* both sources failed, the search-interest source did not, and the run
\* completed with a product count that is not zero
C20_Witness ==
  /\ pc = "done"
  /\ ~exc.raised
  /\ events_data = EventsFailed
  /\ pinterest_data = PinterestFailed
  /\ trends_data = GoogleTrends(RunInterest)
  /\ status = "completed"
  /\ products_found >= 1

\* the insert of a listing raised after at least one listing was saved and
\* before the last one was
SaveFailedPartWay ==
  /\ exc.raised
  /\ exc.src = "stage"
  /\ saved >= 1
  /\ saved < Len(raw_products)

\* the saves and the completion of a run: the rows inserted are the first
\* saved listings of the final list, each inserted once, and with status
\* completed they are the whole list and the count is its length
C21_SavedOnce ==
  /\ saved = Len(products_table)
  /\ IsPrefix(products_table, raw_products)
  /\ status = "completed" =>
       /\ products_table = raw_products
       /\ products_found = Len(raw_products)

\* C21: each listing of the final list is saved at most once; when the status
\* is completed every listing of the list was saved exactly once and the
\* recorded count is the length of the list; and when an insert raised
\* part-way the run has the status failed once it has ended, with the
\* listings saved before still saved.
C21_PersistOnce ==
  /\ C21_SavedOnce
  /\ (RunEnded /\ SaveFailedPartWay) =>
       /\ status = "failed"
       /\ Len(products_table) = saved

\* C29: every event reaches every subscriber that stays connected.  When a
\* broadcast_progress call ends its loop, every websocket that was in the
\* list when the call began and is still open was sent the event, whatever
\* the other subscribers did meanwhile; and the list holds no websocket twice.
C29_BroadcastReachesAll ==
  [][/\ (bc.active /\ ~bc'.active) =>
          \A w \in bc.at_start : ws[w] = "open" => w \in bc.sent \cup {bc.cur}
     /\ \A i, j \in 1..Len(connections') :
          connections'[i] = connections'[j] => i = j]_vars

\* ------------------------------------------------------------------------
\* Properties of scrape_all_platforms
\* ------------------------------------------------------------------------
Selected == SeqSet(Futures)

\* C6: platform tasks are isolated.  When scrape_all_platforms returns, every
\* selected adapter has run to its end, whichever adapters raised, and the
\* aggregated list holds, for each adapter that returned, exactly the listings
\* it returned (in its order), and nothing for an adapter that raised.
C6_TasksIsolated ==
  pool_pc = "returned" =>
    /\ \A p \in Selected : fstate[p] \in {"returned", "raised"}
    /\ \A p \in Selected :
         OfPlatform(all_products, p) =
           (IF fstate[p] = "returned" THEN fresult[p] ELSE <<>>)
    /\ \A i \in 1..Len(all_products) : all_products[i].platform \in Selected

\* an adapter raised, a sibling returned listings, and the call returned
C6_Witness ==
  /\ pool_pc = "returned"
  /\ Raised # {}
  /\ all_products # <<>>

\* C7: at most MAX_WORKERS adapters execute at any instant, no adapter is
\* started twice, and when the call returns every selected platform's adapter
\* was started exactly once and its future was collected.
C7_BoundedPool ==
  /\ Cardinality(Running) <= MAX_WORKERS
  /\ \A p \in scrapers : started[p] <= 1
  /\ pool_pc = "returned" =>
       \A p \in Selected : started[p] = 1 /\ p \in collected

\* all 7 platforms are selected, MAX_WORKERS adapters run and the others wait
C7_Witness ==
  /\ Cardinality(Selected) = 7
  /\ Cardinality(Running) = MAX_WORKERS
  /\ Cardinality({p \in scrapers : fstate[p] = "queued"}) = 3

SamePlatformUrl(x, y) ==
  x.platform = y.platform /\ NormUrl(x.url) = NormUrl(y.url)

\* C9: the list scrape_all_platforms returns holds no two listings with the
\* same platform and the same normalized product URL.
C9_NoDuplicates ==
  pool_pc = "returned" =>
    \A i, j \in 1..Len(filtered) :
      i < j => ~SamePlatformUrl(filtered[i], filtered[j])

\* a stage of the scoring loop sets an exclusion reason for the listing
SetsExclusion(p) ==
  \/ OrZero(p.rating) > 0 /\ OrZero(p.rating) < 35
  \/ OrZero(p.review_count) > 0 /\ OrZero(p.review_count) < 100
  \/ p.stock_status \notin {"In Stock", "Limited Stock"}

\* C10: the returned list holds only listings for which no scoring stage set
\* an exclusion reason and whose score is at least MIN_SCORE, and it is sorted
\* by score in non-increasing order.
C10_FilteredSorted ==
  pool_pc = "returned" =>
    /\ \A i \in 1..Len(filtered) :
         /\ ~SetsExclusion(filtered[i])
         /\ filtered[i]._exclude = NoExclude
         /\ filtered[i].score >= MIN_SCORE
    /\ \A i, j \in 1..Len(filtered) :
         i < j => filtered[i].score >= filtered[j].score

\* a list with an excluded listing, a listing under the threshold and two
\* survivors that arrive in ascending score order was scored
C10_Witness ==
  /\ pool_pc = "returned"
  /\ \E i \in 1..Len(all_products) : SetsExclusion(all_products[i])
  /\ Len(filtered) >= 2
  /\ Len(filtered) < Len(all_products)
  /\ \E i, j \in 1..Len(all_products) :
       /\ i < j
       /\ ScoreOne(all_products[i], trends_data, pinterest_data).score
            < ScoreOne(all_products[j], trends_data, pinterest_data).score
       /\ ScoreOne(all_products[i], trends_data, pinterest_data).score >= MIN_SCORE
       /\ ~SetsExclusion(all_products[i])
       /\ ~SetsExclusion(all_products[j])

\* the listings of s that survive the filters with the score sc, in order
WithScore(s, sc) ==
  SelectSeq(s, LAMBDA x : x._exclude = NoExclude /\ x.score >= MIN_SCORE
                          /\ x.score = sc)

\* C26: ties keep the input order.  When scrape_all_platforms has returned,
\* the listings of the returned list that have one score are, in order, the
\* surviving listings of all_products with that score, and those of one
\* platform among them are in the order in which the adapter returned them,
\* whatever the order in which the futures completed.
C26_TiesKeepOrder ==
  pool_pc = "returned" =>
    \A i \in 1..Len(filtered) :
      LET sc == filtered[i].score
      IN /\ WithScore(filtered, sc) = WithScore(all_products, sc)
         /\ \A p \in scrapers :
              OfPlatform(WithScore(filtered, sc), p) = WithScore(fresult[p], sc)

\* the adapter of amazon returned A5 before A4; the two listings, of equal
\* score, were returned in that order
C26_Witness ==
  /\ pool_pc = "returned"
  /\ Len(fresult["amazon"]) = 2
  /\ fresult["amazon"][1].url.path = "/dp/A5"
  /\ fresult["amazon"][2].url.path = "/dp/A4"
  /\ Len(filtered) = 2
  /\ filtered[1].url.path = "/dp/A5"
  /\ filtered[2].url.path = "/dp/A4"
  /\ filtered[1].score = filtered[2].score

\* ------------------------------------------------------------------------
\* Properties of the write queue
\* ------------------------------------------------------------------------
\* C30: no queued write is lost.  After any sequence of queue_write and
\* flush_write_queue calls every write that was queued has been applied to
\* the store or is in the queue in a form for which a flush calls execute();
\* no applied write is still queued; and the queued items are in the order
\* in which they were queued.
C30_NoWriteLost ==
  /\ \A n \in 1..queued :
       \/ n \in store
       \/ \E k \in 1..Len(_write_queue) :
            _write_queue[k].id = n /\ Executes(_write_queue[k])
  /\ \A k \in 1..Len(_write_queue) : _write_queue[k].id \notin store
  /\ \A j, k \in 1..Len(_write_queue) :
       j < k => _write_queue[j].id < _write_queue[k].id

\* ------------------------------------------------------------------------
\* Properties of _determine_platforms
\* ------------------------------------------------------------------------
\* position of the first occurrence of x in s
FirstIndex(s, x) == CHOOSE i \in 1..Len(s) : s[i] = x /\ \A j \in 1..(i - 1) : s[j] # x

\* C18: for every niche the selected list contains amazon, flipkart and
\* meesho, contains no platform twice, lists the platforms in the order in
\* which they were first added, and contains only keys of scrapers, so that a
\* future is submitted for every selected platform.
C18_SelectorShape ==
  pool_pc = "submit" =>
    LET r == relevant_platforms
        added == PlatformsList(niche)
    IN /\ {"amazon", "flipkart", "meesho"} \subseteq SeqSet(r)
       /\ \A i, j \in 1..Len(r) : i < j => r[i] # r[j]
       /\ SeqSet(r) = SeqSet(added)
       /\ \A i, j \in 1..Len(r) :
            i < j => FirstIndex(added, r[i]) < FirstIndex(added, r[j])
       /\ SeqSet(r) \subseteq scrapers
       /\ Futures = r

\* a niche of all three categories: platforms were added more than once and
\* all 7 are selected
C18_Witness ==
  /\ pool_pc = "submit"
  /\ Len(relevant_platforms) = 7
  /\ Len(PlatformsList(niche)) = 10

\* the niche has a baby, a fashion, a beauty keyword of the model's alphabet,
\* in any case
BabyNiche(n) == \E i \in 1..Len(n) : n[i] \in {"BABY", "baby"}
FashionNiche(n) == \E i \in 1..Len(n) : n[i] \in {"clothing", "tops"}
BeautyNiche(n) ==
  \/ \E i \in 1..Len(n) : n[i] = "Serum"
  \/ \E i \in 1..(Len(n) - 2) : SubSeq(n, i, i + 2) = <<"hair", " ", "care">>

\* C19: category membership is a case-insensitive substring test.  The set
\* of selected platforms is amazon, flipkart, meesho, plus firstcry exactly
\* when the niche contains a baby keyword, plus myntra and ajio when it
\* contains a fashion keyword, plus nykaa and myntra when it contains a
\* beauty keyword; for "baby clothing" the list is amazon, flipkart, myntra,
\* meesho, ajio, firstcry, each once.
C19_Categories ==
  pool_pc = "submit" =>
    /\ SeqSet(relevant_platforms) =
         {"amazon", "flipkart", "meesho"}
         \cup (IF BabyNiche(niche) THEN {"firstcry"} ELSE {})
         \cup (IF FashionNiche(niche) THEN {"myntra", "ajio"} ELSE {})
         \cup (IF BeautyNiche(niche) THEN {"nykaa", "myntra"} ELSE {})
    /\ niche = <<"baby", " ", "clothing">> =>
         /\ SeqSet(relevant_platforms) =
              {"amazon", "flipkart", "myntra", "meesho", "ajio", "firstcry"}
         /\ Len(relevant_platforms) = 6

\* the selector was applied to "BABYlaptops": a baby keyword in upper case
\* and a fashion keyword that is part of a word
C19_Witness ==
  /\ pool_pc = "submit"
  /\ niche = <<"BABY", "lap", "tops">>
  /\ SeqSet(relevant_platforms) =
       {"amazon", "flipkart", "myntra", "meesho", "ajio", "firstcry"}

\* ------------------------------------------------------------------------
\* Properties of _score_products
\* ------------------------------------------------------------------------
\* C11: the score the scoring engine assigns to a listing is at least 0 and at
\* most 100 (1000 tenths), for every listing and trend context, also when the
\* sum of the awarded points is above 100.
C11_ScoreInRange ==
  pool_pc = "returned" =>
    \A i \in 1..Len(all_products) :
      all_products[i].score >= 0 /\ all_products[i].score <= 1000

\* a listing whose awarded points sum to more than 100 was scored 100
C11_Witness ==
  /\ pool_pc = "returned"
  /\ \E i \in 1..Len(all_products) :
       /\ Points(all_products[i], trends_data, pinterest_data) > 1000
       /\ all_products[i].score = 1000

\* C12: a listing whose rating is present and strictly between 0 and 3.5 is
\* not in the output of the scoring engine nor in the returned list, whatever
\* its other fields and the trend context; an absent rating does not exclude:
\* no rating exclusion is recorded for it, and it carries an exclusion reason
\* only when the review stage or the stock stage set one.
C12_LowRatingExcluded ==
  pool_pc = "returned" =>
    /\ \A j \in 1..Len(scored) : ~LowRating(scored[j])
    /\ \A j \in 1..Len(filtered) : ~LowRating(filtered[j])
    /\ \A i \in 1..Len(all_products) :
         all_products[i].rating = None =>
           /\ all_products[i]._exclude # "rating_too_low"
           /\ (~FewReviews(all_products[i]) /\ StockKnown(all_products[i]))
                => all_products[i]._exclude = NoExclude

\* a listing rated 3.4 whose points reach the threshold was left out
C12_Witness ==
  /\ pool_pc = "returned"
  /\ Len(all_products) = 1
  /\ LowRating(all_products[1])
  /\ all_products[1].score >= MIN_SCORE
  /\ ~FewReviews(all_products[1]) /\ StockKnown(all_products[1])
  /\ scored = <<>>

\* C13: a listing whose review count is positive and below 100 is not in the
\* output of the scoring engine nor in the returned list, whatever its other
\* fields; a review count of 0 or an absent one sets no exclusion reason: the
\* listing carries one only when the rating stage or the stock stage set it.
C13_FewReviewsExcluded ==
  pool_pc = "returned" =>
    /\ \A j \in 1..Len(scored) : ~FewReviews(scored[j])
    /\ \A j \in 1..Len(filtered) : ~FewReviews(filtered[j])
    /\ \A i \in 1..Len(all_products) :
         OrZero(all_products[i].review_count) = 0 =>
           /\ all_products[i]._exclude # "too_few_reviews"
           /\ (~LowRating(all_products[i]) /\ StockKnown(all_products[i]))
                => all_products[i]._exclude = NoExclude

\* a listing with 99 reviews whose points reach the threshold was left out,
\* and nothing else excludes it
C13_Witness ==
  /\ pool_pc = "returned"
  /\ Len(all_products) = 1
  /\ FewReviews(all_products[1])
  /\ all_products[1].score >= MIN_SCORE
  /\ ~LowRating(all_products[1]) /\ StockKnown(all_products[1])
  /\ scored = <<>>

\* C15: the scoring engine is idempotent.  Applied a second time to the same
\* list, with the dicts as the first application left them and the same trend
\* context, it returns the list it returned the first time (same members,
\* order, scores, commission estimates) and leaves every dict, its exclusion
\* reason included, as it was.
C15_Idempotent ==
  [][(pool_pc = "returned" /\ pool_pc' = "rescored")
       => (scored' = scored /\ all_products' = all_products)]_vars

\* a list with a listing that was returned, an excluded listing and a listing
\* under the threshold was scored twice
C15_Witness ==
  /\ pool_pc = "rescored"
  /\ Len(scored) >= 1
  /\ \E i \in 1..Len(all_products) : all_products[i]._exclude # NoExclude
  /\ \E i \in 1..Len(all_products) :
       all_products[i]._exclude = NoExclude /\ all_products[i].score < MIN_SCORE

\* C22: for every listing and trend context the points that stage 6 adds
\* (search interest, keyword in the title, bestseller badge, amazons_choice
\* badge) are at most 25.
C22_TrendBonusCap ==
  pool_pc = "returned" =>
    \A i \in 1..Len(all_products) :
      TrendPoints(all_products[i], trends_data, pinterest_data) <= 250

\* the price-band points of a price by presence: 20, 12 or 4 for a present
\* price, 0 for an absent one (tenths)
PriceBand(price) ==
  IF price = None THEN 0
  ELSE IF 200 <= price /\ price <= 5000 THEN 200
  ELSE IF 100 <= price /\ price <= 10000 THEN 120
  ELSE 40

\* C23: the price-band points depend on the presence of the price: the score
\* of every listing is the capped sum of the points of the other stages and
\* of 20, 12 or 4 points for a present price (4 for a price of 0 or of 50)
\* and 0 for an absent one, and a listing is excluded for its rating, its
\* review count or its stock only.
C23_PriceByPresence ==
  pool_pc = "returned" =>
    \A i \in 1..Len(all_products) :
      LET p == all_products[i]
      IN /\ p.score = Min(1000,
                          CommissionPoints(p.platform)
                          + RatingPoints(OrZero(p.rating))
                          + ReviewPoints(OrZero(p.review_count))
                          + PriceBand(p.price)
                          + StockPoints(p.stock_status)
                          + TrendPoints(p, trends_data, pinterest_data))
         /\ p._exclude # NoExclude =>
              (LowRating(p) \/ FewReviews(p) \/ ~StockKnown(p))

\* C24: the scoring engine leaves its input unchanged.  The step in which
\* _score_products is applied to all_products changes neither the list nor
\* any field of any of its listings.
C24_ScoringPure ==
  [][(pool_pc = "collect" /\ pool_pc' = "returned") =>
       all_products' = all_products]_vars

\* C27: the trend-bonus field reflects the scoring.  For every listing of
\* the returned list the field trend_bonus says that a bonus was applied (it
\* is not 0) exactly when stage 6 added at least one point to the score.
C27_TrendBonusRecorded ==
  pool_pc = "returned" =>
    \A i \in 1..Len(filtered) :
      (filtered[i].trend_bonus # 0)
        <=> (TrendPoints(filtered[i], trends_data, pinterest_data) > 0)

\* the listing has the fields the adapters of myntra, meesho, ajio, nykaa and
\* firstcry set: no rating, no review count, no badges
Unrated(p) == p.rating = None /\ p.review_count = None /\ p.badges = NoBadges

\* C28: a listing as the adapter of firstcry emits it scores at most 68 and
\* is not in the returned list, under every price and trend context; and a
\* listing as the adapters of myntra, meesho, ajio and nykaa emit it reaches
\* the threshold only with at least one point of stage 6.
C28_UnratedBelowThreshold ==
  pool_pc = "returned" =>
    /\ \A i \in 1..Len(all_products) :
         LET p == all_products[i]
         IN Unrated(p) =>
              /\ p.platform = "firstcry" => p.score <= 680
              /\ (p.platform \in {"myntra", "meesho", "ajio", "nykaa"}
                  /\ p.score >= MIN_SCORE) =>
                   TrendPoints(p, trends_data, pinterest_data) > 0
    /\ \A j \in 1..Len(filtered) :
         Unrated(filtered[j]) => filtered[j].platform # "firstcry"

\* a listing of firstcry with the best price band, in stock, with the search
\* interest and the keyword bonus: 68.0, and the returned list is empty
C28_Witness ==
  /\ pool_pc = "returned"
  /\ Len(all_products) = 1
  /\ all_products[1].platform = "firstcry"
  /\ Unrated(all_products[1])
  /\ all_products[1].score = 680
  /\ filtered = <<>>

\* ------------------------------------------------------------------------
\* Properties of the platform adapters
\* ------------------------------------------------------------------------
\* C14: for every listing an adapter produced, if price and mrp are both
\* present and mrp > price then discount_pct is (mrp - price) / mrp * 100
\* rounded to one decimal, and otherwise discount_pct is absent.
C14_DiscountPct ==
  \A i \in 1..Len(adapter_products) :
    LET p == adapter_products[i]
    IN IF p.price # None /\ p.mrp # None /\ p.mrp > p.price
       THEN p.discount_pct = RoundHalfEven((p.mrp - p.price) * 1000, p.mrp)
       ELSE p.discount_pct = None

\* the item has a title element and reading it does not raise
Parses(item) == item.has_title /\ ~item.raises

\* the listings of the items of a fetched document that are among the first
\* 15 of its page and parse, in page order; none for Nothing
Emitted(platform, doc) ==
  IF ~doc.document THEN <<>>
  ELSE LET page == doc.items
           n == IF Len(page) < 15 THEN Len(page) ELSE 15
           kept == SelectSeq([k \in 1..n |-> page[k]], Parses)
       IN [j \in 1..Len(kept) |-> ItemListing(platform, kept[j])]

EmittedOf(platform, f, u) == IF u <= Len(f) THEN Emitted(platform, f[u]) ELSE <<>>

\* C25: when an adapter has returned, its list is, URL by URL and in page
\* order, the listings of the items that are among the first 15 of the page
\* and parse; an item that does not parse leaves out that item only; and when
\* every fetch returned Nothing the list is empty.
C25_PageItems ==
  adapter_pc = "returned" =>
    /\ Len(fetched) <= NumUrls(adapter)
    /\ adapter_products =
         EmittedOf(adapter, fetched, 1) \o EmittedOf(adapter, fetched, 2)
    /\ (\A u \in 1..Len(fetched) : fetched[u] = Nothing) => adapter_products = <<>>

\* an adapter returned after a page of 16 items whose first item raised and
\* whose 16th item parses: 14 listings were emitted for that page
C25_Witness ==
  /\ adapter_pc = "returned"
  /\ \E u \in 1..Len(fetched) :
       /\ fetched[u].document
       /\ Len(fetched[u].items) = 16
       /\ fetched[u].items[1] = Malformed
       /\ Parses(fetched[u].items[15])
       /\ Parses(fetched[u].items[16])
       /\ Len(Emitted(adapter, fetched[u])) = 14
       /\ \A v \in 1..Len(fetched) : v # u => fetched[v] = Nothing
  /\ Len(adapter_products) = 14

\* ------------------------------------------------------------------------
\* Properties of _safe_get
\* ------------------------------------------------------------------------
\* C16: whatever the outcomes of the attempts, the fetcher makes at most 3
\* attempts, makes none after an HTTP 200, never raises, returns the document
\* exactly when its last attempt yielded HTTP 200, and returns Nothing
\* exactly when 3 attempts were made and none yielded HTTP 200.
C16_FetchRetries ==
  /\ Len(responses) <= 3
  /\ fetch_pc # "raised"
  /\ \A i \in 1..(Len(responses) - 1) : responses[i] # 200
  /\ (\E i \in 1..Len(responses) : responses[i] = 200)
       => (fetch_pc = "returned" /\ soup = Document)
  /\ fetch_pc = "returned" =>
       /\ soup \in {Document, Nothing}
       /\ soup = Document <=> responses[Len(responses)] = 200
       /\ soup = Nothing <=>
            (Len(responses) = 3 /\ \A i \in 1..3 : responses[i] # 200)

\* HTTP 429 twice, then HTTP 200: the document after exactly 3 attempts
C16_Witness ==
  /\ fetch_pc = "returned"
  /\ responses = <<429, 429, 200>>
  /\ soup = Document

\* C17: the cooldown of 60 is slept only after an HTTP 403 or 429 and only
\* when another attempt follows, and the delay before attempt k is a jitter
\* between 3 and 6 plus 0, 5, 15 for k = 1, 2, 3.
C17_Sleeps ==
  \A i \in 1..Len(slept) :
    IF slept[i].kind = "cooldown"
    THEN /\ slept[i].secs = 600
         /\ responses[slept[i].attempt + 1] \in {403, 429}
         /\ slept[i].attempt + 1 < 3
    ELSE LET extra == CASE slept[i].attempt = 0 -> 0
                        [] slept[i].attempt = 1 -> 50
                        [] slept[i].attempt = 2 -> 150
         IN /\ slept[i].secs - extra >= 30
            /\ slept[i].secs - extra <= 60

====
